---- MODULE Spec2Model ----
\* Model of the Vuex store of src/src/store/index.ts (the second, canonical
\* store: lines 191-391).  The store state, the browser's localStorage token
\* key and the axios default Authorization header are the program state; the
\* remote API is the environment: it answers every request that is in flight
\* either with a response envelope {code, msg, data} or with a failure.
EXTENDS Integers, Sequences, FiniteSets, Bags, TLC

VARIABLES
  state,          \* the Vuex state record (GlobalDataProps)
  localStorage,   \* localStorage.getItem('token'): a string, or undefined
  Authorization,  \* axios.defaults.headers.common.Authorization, or undefined
  inflight,       \* bag of the axios calls awaiting their response
  ops,            \* number of UI operations (dispatches and commits) so far
  netCalls,       \* bag of the URLs requested so far
  commits,        \* the names of the mutations committed so far, in order
  thenJobs,       \* number of .then callbacks of loginAndFetch queued to run
  last            \* the step just taken and what it returned to its caller

vars ==
  <<state, localStorage, Authorization, inflight, ops, netCalls, commits,
    thenJobs, last>>

store == <<state, localStorage, Authorization>>

-----------------------------------------------------------------------------
\* Bounds of the model and the input domains.

\* UI operations (dispatches and direct commits) in one run.
MaxOps == 2

\* UI operations in one run of the specifications of one part of the store.
MaxColumnOps == 4
MaxPostOps == 3
MaxAuthOps == 4

ColumnIds == {"c1", "c2"}
PostIds == {"p1", "p2"}
Pages == {"1", "2"}
PageSize == "5"
LoginTokens == {"tok1"}
StoredTokens == {"tok0"}
ContentValues == {"", "body"}

-----------------------------------------------------------------------------
\* JavaScript values.

\* The value undefined where a string is expected (a missing property, a
\* missing localStorage key, a missing header).
undefined == "<undefined>"

\* The value undefined where an object is expected (a missing cache entry,
\* the return value of an action that falls through its guard).
undefinedObj == [undefined |-> TRUE]

\* o.f : a missing property reads as undefined.
Prop(o, f) == IF f \in DOMAIN o THEN o[f] ELSE undefined

\* A value used as a property key is converted to a string.
ToPropertyKey(v) == IF v = undefined THEN "undefined" ELSE v

\* Truthiness of a string-or-undefined value.
Truthy(v) == v # undefined /\ v # ""

\* A plain object used as a dictionary: the sequence of its own entries
\* [k, v] in key iteration order (insertion order for non-index string keys).
EmptyObj == <<>>

ObjHas(o, k) == \E i \in 1..Len(o) : o[i].k = k

ObjIndex(o, k) == CHOOSE i \in 1..Len(o) : o[i].k = k

\* o[k]
ObjGet(o, k) == IF ObjHas(o, k) THEN o[ObjIndex(o, k)].v ELSE undefinedObj

\* o[k] = v : an existing key keeps its position, a new key goes last.
ObjSet(o, k, v) ==
  IF ObjHas(o, k)
    THEN [o EXCEPT ![ObjIndex(o, k)] = [k |-> k, v |-> v]]
    ELSE Append(o, [k |-> k, v |-> v])

\* delete o[k]
ObjDelete(o, k) == SelectSeq(o, LAMBDA e : e.k # k)

\* { ...a, ...b }
RECURSIVE ObjSpread(_, _)
ObjSpread(a, b) ==
  IF b = <<>> THEN a
  ELSE ObjSpread(ObjSet(a, Head(b).k, Head(b).v), Tail(b))

\* Object.keys(o)
ObjKeys(o) == [i \in 1..Len(o) |-> o[i].k]

\* helper.arrToObj: the list's items keyed by their _id.
RECURSIVE arrToObjFrom(_, _)
arrToObjFrom(acc, arr) ==
  IF arr = <<>> THEN acc
  ELSE arrToObjFrom(ObjSet(acc, ToPropertyKey(Prop(Head(arr), "_id")), Head(arr)),
                    Tail(arr))

arrToObj(arr) == arrToObjFrom(EmptyObj, arr)

\* helper.objToArr: the object's values in key iteration order.
objToArr(obj) == [i \in 1..Len(obj) |-> obj[i].v]

-----------------------------------------------------------------------------
\* The remote API (the environment).

Envelope(d) == [code |-> 0, msg |-> "ok", data |-> d]

Column(cid) == [_id |-> cid, title |-> "title"]

\* A post as the list endpoints return it: without its content.
PostStub(id, cid) == [_id |-> id, title |-> "title", column |-> cid]

\* A post as the single-post endpoints return it.
PostFull(id, cid, content) ==
  [_id |-> id, title |-> "title", column |-> cid, content |-> content]

\* The sequences without repetition over a set of at most two elements.
ListsOver(S) ==
  {<<>>} \cup {<<a>> : a \in S} \cup {<<a, b>> : <<a, b>> \in {p \in S \X S : p[1] # p[2]}}

ColumnLists == {[i \in 1..Len(l) |-> Column(l[i])] : l \in ListsOver(ColumnIds)}

PostLists(cid) == {[i \in 1..Len(l) |-> PostStub(l[i], cid)] : l \in ListsOver(PostIds)}

UserData == [_id |-> "u1", nickName |-> "nick"]

\* The column the API holds a post in.
HomeColumn(id) == IF id = "p1" THEN "c1" ELSE "c2"

\* The bodies the API can answer request r with.
Responses(r) ==
  CASE r.mutationName = "fetchColumns" ->
         {Envelope([list |-> l]) : l \in ColumnLists}
    [] r.mutationName = "fetchColumn" ->
         {Envelope(Column(r.arg))}
    [] r.mutationName = "fetchPosts" ->
         {Envelope([list |-> l]) : l \in PostLists(r.arg)}
    [] r.mutationName = "fetchPost" ->
         {Envelope(PostFull(r.arg, HomeColumn(r.arg), x)) : x \in ContentValues}
    [] r.mutationName = "fetchCurrentUser" ->
         \* the API knows the user only from the Authorization header
         IF r.headers = undefined THEN {} ELSE {Envelope(UserData)}
    [] r.mutationName = "login" ->
         {Envelope([token |-> t]) : t \in LoginTokens}
    [] r.mutationName = "createPost" ->
         {Envelope(PostFull(id, r.data.column, r.data.content)) : id \in PostIds}
    [] r.mutationName = "updatePost" ->
         {Envelope(PostFull(r.arg, r.data.column, r.data.content))}
    [] r.mutationName = "deletePost" ->
         {Envelope(PostFull(r.arg, HomeColumn(r.arg), "body"))}

-----------------------------------------------------------------------------
\* Mutations.  A mutation maps the world w = [state, localStorage,
\* Authorization] and its payload to the world after it.

World == [state |-> state, localStorage |-> localStorage,
          Authorization |-> Authorization]

mutations_createPost(w, newPost) ==
  [w EXCEPT !.state.posts.data =
     ObjSet(@, ToPropertyKey(Prop(newPost, "_id")), newPost)]

\* A fetchColumns that merges the list into the cache.
mutations_fetchColumns_Merge(w, rawData) ==
  [w EXCEPT !.state.columns.data = ObjSpread(@, arrToObj(rawData.data.list)),
            !.state.columns.isLoaded = TRUE]

mutations_fetchColumns(w, rawData) ==
  [w EXCEPT !.state.columns.data = arrToObj(rawData.data.list),
            !.state.columns.isLoaded = TRUE]

\* A fetchColumn that pushes the column onto the cache and never looks for
\* an entry it would replace.
mutations_fetchColumn_Push(w, rawData) ==
  [w EXCEPT !.state.columns.data =
     Append(@, [k |-> ToPropertyKey(Prop(rawData.data, "_id")), v |-> rawData.data])]

mutations_fetchColumn(w, rawData) ==
  [w EXCEPT !.state.columns.data =
     ObjSet(@, ToPropertyKey(Prop(rawData.data, "_id")), rawData.data)]

\* A fetchPosts that replaces the cache (as the first store, line 102).
mutations_fetchPosts_Replace(w, payload) ==
  LET rawData == payload.data
      columnId == payload.extraData
  IN [w EXCEPT !.state.posts.data = arrToObj(rawData.data.list),
               !.state.posts.loadedColumns = Append(@, columnId)]

mutations_fetchPosts(w, payload) ==
  LET rawData == payload.data
      columnId == payload.extraData
  IN [w EXCEPT !.state.posts.data = ObjSpread(@, arrToObj(rawData.data.list)),
               !.state.posts.loadedColumns = Append(@, columnId)]

mutations_fetchPost(w, rawData) ==
  [w EXCEPT !.state.posts.data =
     ObjSet(@, ToPropertyKey(Prop(rawData.data, "_id")), rawData.data)]

mutations_setLoading(w, status) == [w EXCEPT !.state.loading = status]

mutations_setError(w, e) == [w EXCEPT !.state.error = e]

\* A login that also ends the loading state.
\* A login that keeps the token in memory and in the header, and forgets
\* localStorage.setItem.
mutations_login_NoSetItem(w, rawData) ==
  LET token == rawData.data.token
  IN [w EXCEPT !.state.token = token,
               !.Authorization = "Bearer " \o token]

mutations_login_ClearsLoading(w, rawData) ==
  LET token == rawData.data.token
  IN [w EXCEPT !.state.token = token,
               !.state.loading = FALSE,
               !.localStorage = token,
               !.Authorization = "Bearer " \o token]

mutations_login(w, rawData) ==
  LET token == rawData.data.token
  IN [w EXCEPT !.state.token = token,
               !.localStorage = token,
               !.Authorization = "Bearer " \o token]

mutations_fetchCurrentUser(w, rawData) ==
  [w EXCEPT !.state.user = rawData.data @@ [isLogin |-> TRUE]]

\* A signOut that clears the login flag but keeps the user's other fields.
mutations_signOut_KeepsUser(w) ==
  [w EXCEPT !.state.token = "",
            !.localStorage = undefined,
            !.state.user = [@ EXCEPT !.isLogin = FALSE],
            !.Authorization = undefined]

mutations_signOut(w) ==
  [w EXCEPT !.state.token = "",
            !.localStorage = undefined,
            !.state.user = [isLogin |-> FALSE],
            !.Authorization = undefined]

\* An updatePost that rebuilds the post cache from the updated post alone.
mutations_updatePost_Only(w, payload) ==
  LET data == payload.data
  IN [w EXCEPT !.state.posts.data =
        ObjSet(EmptyObj, ToPropertyKey(Prop(data, "_id")), data)]

mutations_updatePost(w, payload) ==
  LET data == payload.data
  IN [w EXCEPT !.state.posts.data = ObjSet(@, ToPropertyKey(Prop(data, "_id")), data)]

\* A deletePost that empties the post cache.
mutations_deletePost_All(w, payload) ==
  [w EXCEPT !.state.posts.data = EmptyObj]

mutations_deletePost(w, payload) ==
  LET data == payload.data
  IN [w EXCEPT !.state.posts.data = ObjDelete(@, ToPropertyKey(Prop(data, "_id")))]

\* store.commit(mutationName, payload)
commit(w, mutationName, payload) ==
  CASE mutationName = "createPost" -> mutations_createPost(w, payload)
    [] mutationName = "fetchColumns" -> mutations_fetchColumns(w, payload)
    [] mutationName = "fetchColumn" -> mutations_fetchColumn(w, payload)
    [] mutationName = "fetchPosts" -> mutations_fetchPosts(w, payload)
    [] mutationName = "fetchPost" -> mutations_fetchPost(w, payload)
    [] mutationName = "login" -> mutations_login(w, payload)
    [] mutationName = "fetchCurrentUser" -> mutations_fetchCurrentUser(w, payload)
    [] mutationName = "updatePost" -> mutations_updatePost(w, payload)
    [] mutationName = "deletePost" -> mutations_deletePost(w, payload)

\* The world becomes w.
Becomes(w) ==
  /\ state' = w.state
  /\ localStorage' = w.localStorage
  /\ Authorization' = w.Authorization

-----------------------------------------------------------------------------
\* Getters.

getColumns(st) == objToArr(st.columns.data)

getColumnById(st, id) == ObjGet(st.columns.data, id)

\* A getter that forgets the filter and returns the whole cache.
getPostsByCid_NoFilter(st, cid) == objToArr(st.posts.data)

getPostsByCid(st, cid) ==
  SelectSeq(objToArr(st.posts.data), LAMBDA post : Prop(post, "column") = cid)

getCurrentPost(st, id) == ObjGet(st.posts.data, id)

-----------------------------------------------------------------------------
\* Actions.  An axios call in flight is a record: the URL and config it was
\* made with, the mutation asyncAndCommit commits when it resolves and the
\* extraData it passes along; origin is the action that was dispatched, arg
\* the id in the URL's path and headers the default Authorization header the
\* call was sent with.

Pending == [tag |-> "pending"]
ReturnsUndefined == [tag |-> "undefined"]
Resolved(v) == [tag |-> "resolved", value |-> v]
Rejected == [tag |-> "rejected"]

\* asyncAndCommit up to its await: the axios call it makes.
asyncAndCommit(url, mutationName, config, extraData) ==
  [url |-> url, mutationName |-> mutationName, method |-> config.method,
   data |-> config.data, extraData |-> extraData]

GetConfig == [method |-> "get", data |-> undefinedObj]

Call(r, origin, arg) ==
  r @@ [origin |-> origin, arg |-> arg, headers |-> Authorization]

\* The step of a dispatch that makes the axios call r.
Issue(r, action) ==
  /\ inflight' = inflight (+) SetToBag({r})
  /\ netCalls' = netCalls (+) SetToBag({r.url})
  /\ last' = [kind |-> "dispatch", action |-> action, arg |-> r.arg,
              issued |-> TRUE, ret |-> Pending]
  /\ UNCHANGED commits

\* The step of a dispatch that makes no axios call and returns ret.
Skip(action, arg, ret) ==
  /\ UNCHANGED <<inflight, netCalls, commits>>
  /\ last' = [kind |-> "dispatch", action |-> action, arg |-> arg,
              issued |-> FALSE, ret |-> ret]

Dispatching ==
  /\ ops' = ops + 1
  /\ UNCHANGED <<store, thenJobs>>

\* A fetchColumns that never consults isLoaded (as the first store, line 141).
fetchColumnsGuard_Always(st) == TRUE

fetchColumnsGuard(st) == ~st.columns.isLoaded

actions_fetchColumns(data) ==
  /\ Dispatching
  /\ IF fetchColumnsGuard(state)
       THEN Issue(Call(asyncAndCommit(
                    "/columns?currentPage=" \o data.page \o "&pageSize=" \o data.size,
                    "fetchColumns", GetConfig, undefined),
                  "fetchColumns", data.page), "fetchColumns")
       ELSE Skip("fetchColumns", data.page, ReturnsUndefined)

\* A fetchColumn that never consults the cache (as the first store, line 144).
fetchColumnGuard_Always(st, cid) == TRUE

fetchColumnGuard(st, cid) == ~ObjHas(st.columns.data, cid)

actions_fetchColumn(cid) ==
  /\ Dispatching
  /\ IF fetchColumnGuard(state, cid)
       THEN Issue(Call(asyncAndCommit("/columns/" \o cid, "fetchColumn", GetConfig,
                                      undefined),
                  "fetchColumn", cid), "fetchColumn")
       ELSE Skip("fetchColumn", cid, ReturnsUndefined)

\* loadedColumns.includes(cid)
Includes(list, x) == \E i \in 1..Len(list) : list[i] = x

\* A guard that also holds a dispatch back while a call for the same column
\* is in flight.
\* A fetchPosts that calls the API whether or not the column was loaded.
fetchPostsGuard_Always(st, cid) == TRUE

fetchPostsGuard_NotInFlight(st, cid) ==
  /\ ~Includes(st.posts.loadedColumns, cid)
  /\ ~\E r \in BagToSet(inflight) : r.origin = "fetchPosts" /\ r.arg = cid

fetchPostsGuard(st, cid) == ~Includes(st.posts.loadedColumns, cid)

actions_fetchPosts(cid) ==
  /\ Dispatching
  /\ IF fetchPostsGuard(state, cid)
       THEN Issue(Call(asyncAndCommit("/columns/" \o cid \o "/posts", "fetchPosts",
                                      GetConfig, cid),
                  "fetchPosts", cid), "fetchPosts")
       ELSE Skip("fetchPosts", cid, ReturnsUndefined)

\* A fetchPost that is served from the cache whenever the post is cached,
\* with or without its content.
fetchPostGuard_CachedAtAll(st, id) == ~ObjHas(st.posts.data, id)

fetchPostGuard(st, id) ==
  LET currentPost == ObjGet(st.posts.data, id)
  IN currentPost = undefinedObj \/ ~Truthy(Prop(currentPost, "content"))

actions_fetchPost(id) ==
  /\ Dispatching
  /\ IF fetchPostGuard(state, id)
       THEN Issue(Call(asyncAndCommit("/posts/" \o id, "fetchPost", GetConfig, undefined),
                  "fetchPost", id), "fetchPost")
       ELSE Skip("fetchPost", id, Resolved([data |-> ObjGet(state.posts.data, id)]))

actions_fetchCurrentUser ==
  /\ Dispatching
  /\ Issue(Call(asyncAndCommit("/user/current", "fetchCurrentUser", GetConfig, undefined),
                "fetchCurrentUser", ""), "fetchCurrentUser")

actions_login(payload) ==
  /\ Dispatching
  /\ Issue(Call(asyncAndCommit("/user/login", "login",
                               [method |-> "post", data |-> payload], undefined),
                "login", ""), "login")

\* A loginAndFetch that dispatches fetchCurrentUser without waiting for login.
actions_loginAndFetch_Parallel(loginData) ==
  /\ Dispatching
  /\ inflight' = inflight
       (+) SetToBag({Call(asyncAndCommit("/user/login", "login",
                                         [method |-> "post", data |-> loginData],
                                         undefined), "login", "")})
       (+) SetToBag({Call(asyncAndCommit("/user/current", "fetchCurrentUser",
                                         GetConfig, undefined), "loginAndFetch", "")})
  /\ netCalls' = netCalls (+) SetToBag({"/user/login"}) (+) SetToBag({"/user/current"})
  /\ last' = [kind |-> "dispatch", action |-> "loginAndFetch", arg |-> "",
              issued |-> TRUE, ret |-> Pending]
  /\ UNCHANGED commits

\* dispatch('login', loginData); the .then callback runs when it resolves.
actions_loginAndFetch(loginData) ==
  /\ Dispatching
  /\ Issue(Call(asyncAndCommit("/user/login", "login",
                               [method |-> "post", data |-> loginData], undefined),
                "loginAndFetch", ""), "loginAndFetch")

actions_createPost(payload) ==
  /\ Dispatching
  /\ Issue(Call(asyncAndCommit("/posts", "createPost",
                               [method |-> "post", data |-> payload], undefined),
                "createPost", ""), "createPost")

actions_updatePost(id, payload) ==
  /\ Dispatching
  /\ Issue(Call(asyncAndCommit("/posts/" \o id, "updatePost",
                               [method |-> "patch", data |-> payload], undefined),
                "updatePost", id), "updatePost")

actions_deletePost(id) ==
  /\ Dispatching
  /\ Issue(Call(asyncAndCommit("/posts/" \o id, "deletePost",
                               [method |-> "delete", data |-> undefinedObj], undefined),
                "deletePost", id), "deletePost")

\* What asyncAndCommit commits when its call r resolves with the body data.
CommitPayload(r, data) ==
  IF Truthy(r.extraData) THEN [data |-> data, extraData |-> r.extraData] ELSE data

\* r is the login call of a loginAndFetch: when it resolves, the promise of
\* dispatch('login') resolves and the .then callback is queued.
Chains(r) == r.origin = "loginAndFetch" /\ r.mutationName = "login"

\* asyncAndCommit from its await on, when the call resolves: commit, return.
Resolve(r, data) ==
  /\ BagIn(r, inflight)
  /\ Becomes(commit(World, r.mutationName, CommitPayload(r, data)))
  /\ inflight' = inflight (-) SetToBag({r})
  /\ commits' = Append(commits, r.mutationName)
  /\ thenJobs' = IF Chains(r) THEN thenJobs + 1 ELSE thenJobs
  /\ last' = [kind |-> "resolve", action |-> r.origin, arg |-> r.arg,
              issued |-> FALSE,
              ret |-> IF Chains(r) THEN Pending ELSE Resolved(data)]
  /\ UNCHANGED <<ops, netCalls>>

\* The .then callback of loginAndFetch, a promise job of its own that runs
\* after the job that committed login and after any job queued in between:
\* dispatch('fetchCurrentUser'), whose call is sent with the header set then.
ThenFetchCurrentUser ==
  LET r == Call(asyncAndCommit("/user/current", "fetchCurrentUser", GetConfig,
                               undefined),
                "loginAndFetch", "")
  IN /\ thenJobs > 0
     /\ thenJobs' = thenJobs - 1
     /\ inflight' = inflight (+) SetToBag({r})
     /\ netCalls' = netCalls (+) SetToBag({r.url})
     /\ last' = [kind |-> "then", action |-> "loginAndFetch", arg |-> "",
                 issued |-> TRUE, ret |-> Pending]
     /\ UNCHANGED <<store, ops, commits>>

\* A failure that is committed as if an empty list had been loaded.
AfterFailure_MarksLoaded(w, r) == [w EXCEPT !.state.columns.isLoaded = TRUE]

\* The world after the axios call r fails: the await throws, nothing commits.
AfterFailure(w, r) == w

\* asyncAndCommit from its await on, when the call fails.
Reject(r) ==
  /\ BagIn(r, inflight)
  /\ Becomes(AfterFailure(World, r))
  /\ inflight' = inflight (-) SetToBag({r})
  /\ last' = [kind |-> "reject", action |-> r.origin, arg |-> r.arg,
              issued |-> FALSE, ret |-> Rejected]
  /\ UNCHANGED <<ops, netCalls, commits, thenJobs>>

\* Mutations the UI commits itself.
Committing(w, mutationName, arg) ==
  /\ ops' = ops + 1
  /\ Becomes(w)
  /\ commits' = Append(commits, mutationName)
  /\ last' = [kind |-> "commit", action |-> mutationName, arg |-> arg,
              issued |-> FALSE, ret |-> ReturnsUndefined]
  /\ UNCHANGED <<inflight, netCalls, thenJobs>>

commit_signOut == Committing(mutations_signOut(World), "signOut", "")

commit_setLoading(status) ==
  Committing(mutations_setLoading(World, status), "setLoading", "")

commit_setError(e) == Committing(mutations_setError(World, e), "setError", "")

-----------------------------------------------------------------------------
\* Inputs.

LoginPayloads == {[email |-> "a@b.c", password |-> "pw"]}
PostPayloads == {[column |-> c, content |-> "body"] : c \in ColumnIds}
Errors == {[status |-> TRUE, message |-> "failed"]}

\* The store as createStore builds it; the token key of localStorage is
\* absent or holds the token of an earlier session.
InitialState(stored) ==
  [error |-> [status |-> FALSE],
   token |-> IF Truthy(stored) THEN stored ELSE "",
   loading |-> FALSE,
   columns |-> [data |-> EmptyObj, isLoaded |-> FALSE],
   posts |-> [data |-> EmptyObj, loadedColumns |-> <<>>],
   user |-> [isLogin |-> FALSE]]

Init ==
  /\ localStorage \in {undefined} \cup StoredTokens
  /\ state = InitialState(localStorage)
  /\ Authorization = undefined
  /\ inflight = EmptyBag
  /\ ops = 0
  /\ netCalls = EmptyBag
  /\ commits = <<>>
  /\ thenJobs = 0
  /\ last = [kind |-> "init", action |-> "", arg |-> "", issued |-> FALSE,
             ret |-> ReturnsUndefined]

\* The operations the UI starts, by the part of the store they work on; a
\* run holds at most max of them.
ColumnOps(max) ==
  \/ \E p \in Pages : ops < max /\ actions_fetchColumns([page |-> p, size |-> PageSize])
  \/ \E cid \in ColumnIds : ops < max /\ actions_fetchColumn(cid)

PostOps(max) ==
  \/ \E cid \in ColumnIds : ops < max /\ actions_fetchPosts(cid)
  \/ \E id \in PostIds : ops < max /\ actions_fetchPost(id)
  \/ \E payload \in PostPayloads : ops < max /\ actions_createPost(payload)
  \/ \E id \in PostIds, payload \in PostPayloads :
       ops < max /\ actions_updatePost(id, payload)
  \/ \E id \in PostIds : ops < max /\ actions_deletePost(id)

AuthOps(max) ==
  \/ ops < max /\ actions_fetchCurrentUser
  \/ \E payload \in LoginPayloads : ops < max /\ actions_login(payload)
  \/ \E loginData \in LoginPayloads : ops < max /\ actions_loginAndFetch(loginData)
  \/ ops < max /\ commit_signOut

FlagOps(max) ==
  \/ \E status \in BOOLEAN : ops < max /\ commit_setLoading(status)
  \/ \E e \in Errors : ops < max /\ commit_setError(e)

\* The API answers a call in flight, or the call fails.
Network ==
  \/ \E r \in BagToSet(inflight) : \E data \in Responses(r) : Resolve(r, data)
  \/ \E r \in BagToSet(inflight) : Reject(r)

\* The promise jobs that are queued run.
PromiseJobs == ThenFetchCurrentUser

\* Every operation of the store.
Next ==
  \/ ColumnOps(MaxOps)
  \/ PostOps(MaxOps)
  \/ AuthOps(MaxOps)
  \/ FlagOps(MaxOps)
  \/ Network
  \/ PromiseJobs

Spec == Init /\ [][Next]_vars

\* The column cache alone: fetchColumns and fetchColumn.
NextColumns == ColumnOps(MaxColumnOps) \/ Network

SpecColumns == Init /\ [][NextColumns]_vars

\* The post cache alone.
NextPosts == PostOps(MaxPostOps) \/ Network

SpecPosts == Init /\ [][NextPosts]_vars

\* The session alone: login, loginAndFetch, fetchCurrentUser, signOut.
NextAuth == AuthOps(MaxAuthOps) \/ Network \/ PromiseJobs

SpecAuth == Init /\ [][NextAuth]_vars

-----------------------------------------------------------------------------
\* Properties.

\* Number of occurrences of x in the list.
Count(list, x) == Cardinality({i \in 1..Len(list) : list[i] = x})

\* A fetchColumn dispatch right after the commit of a response for the same cid.
C1_SecondDispatch ==
  (/\ last.kind = "resolve" /\ last.action = "fetchColumn"
   /\ last'.kind = "dispatch" /\ last'.action = "fetchColumn"
   /\ last'.arg = last.arg)
  => /\ ObjHas(state.columns.data, last'.arg)
     /\ ~last'.issued
     /\ netCalls' = netCalls
     /\ inflight' = inflight

\* A run of two operations: fetchColumn, its commit, fetchColumn again.
C1_TwoDispatches ==
  (/\ ops = 2 /\ commits = <<"fetchColumn">>
   /\ last.kind = "dispatch" /\ last.action = "fetchColumn"
   /\ ObjHas(state.columns.data, last.arg))
  => netCalls = SetToBag({"/columns/" \o last.arg})

\* C1: when the step after the commit of a fetchColumn response for cid is a
\* dispatch of fetchColumn for the same cid, that dispatch finds cid in the
\* column cache and issues no request; and when a run's two operations are a
\* fetchColumn whose response is committed and a second fetchColumn of the same
\* cid, /columns/cid has been requested exactly once and nothing else has.
C1_FetchColumnMemoized == [][C1_SecondDispatch]_vars /\ []C1_TwoDispatches

C1_Witness ==
  /\ ops = 2 /\ commits = <<"fetchColumn">>
  /\ last.kind = "dispatch" /\ last.action = "fetchColumn" /\ last.arg = "c1"
  /\ ~last.issued
  /\ CopiesIn("/columns/c1", netCalls) = 1

\* The step in which an axios call fails.
C2_FailureStep ==
  last'.kind = "reject"
  => /\ last'.ret = Rejected
     /\ store' = store
     /\ commits' = commits
     /\ netCalls' = netCalls

\* C2: when an axios call fails, the caller's promise rejects and the store
\* state, the stored token and the Authorization header are what they were
\* just before; no mutation is committed and no further request is made, so
\* the guard a later dispatch of the same fetch action reads is unchanged.
C2_FailureCommitsNothing == [][C2_FailureStep]_vars

C2_Witness ==
  /\ last.kind = "reject" /\ last.action = "fetchColumns"
  /\ ~state.columns.isLoaded
  /\ state.posts.data # EmptyObj

\* r is a request the .then callback of loginAndFetch makes.
ChainedFetchCurrentUser(r) ==
  r.origin = "loginAndFetch" /\ r.mutationName = "fetchCurrentUser"

\* The steps that queue the .then callback, that make the chained request or
\* that fail the login of loginAndFetch.
C3_Step ==
  /\ thenJobs' > thenJobs
     => /\ last'.kind = "resolve" /\ last'.action = "loginAndFetch"
        /\ commits' = Append(commits, "login")
        /\ state'.token \in LoginTokens
        /\ localStorage' = state'.token
        /\ Authorization' = "Bearer " \o state'.token
  /\ (\E r \in BagToSet(inflight') :
        ChainedFetchCurrentUser(r) /\ CopiesIn(r, inflight') > CopiesIn(r, inflight))
     => /\ last'.kind = "then"
        /\ thenJobs > 0 /\ thenJobs' = thenJobs - 1
        /\ Count(commits, "login") > 0
        /\ store' = store
  /\ (last'.kind = "reject" /\ last'.action = "loginAndFetch")
     => /\ inflight' \sqsubseteq inflight
        /\ netCalls' = netCalls
        /\ state'.user = state.user
        /\ last'.ret = Rejected

\* C3: a fetchCurrentUser request of loginAndFetch enters the network only in
\* the .then callback, which is queued only by the step that commits the
\* login response, the step that stores the token in the state and in
\* localStorage and sets the Authorization header; and when the login request
\* of loginAndFetch fails, no request is made, the user slot keeps its value
\* and the composite action rejects.
C3_LoginThenFetchCurrentUser == [][C3_Step]_vars

\* The login of loginAndFetch was committed, then its callback ran and made
\* the fetchCurrentUser call.
C3_Witness ==
  /\ \E r \in BagToSet(inflight) :
       ChainedFetchCurrentUser(r) /\ r.headers = "Bearer tok1"
  /\ last.kind = "then" /\ last.action = "loginAndFetch"
  /\ commits = <<"login">>
  /\ state.token = "tok1"

\* C4: every key of the column cache and of the post cache is the _id of the
\* entity stored under it.
C4_CacheKeysEqualIds ==
  /\ \A i \in 1..Len(state.columns.data) :
       Prop(state.columns.data[i].v, "_id") = state.columns.data[i].k
  /\ \A i \in 1..Len(state.posts.data) :
       Prop(state.posts.data[i].v, "_id") = state.posts.data[i].k

\* C5: when createPost has resolved with the envelope whose data is the post
\* P, getCurrentPost(P._id) is P and getPostsByCid(P.column) includes P.
C5_CreatedPostIsCached ==
  (last.kind = "resolve" /\ last.action = "createPost")
  => LET P == last.ret.value.data
     IN /\ getCurrentPost(state, P._id) = P
        /\ Includes(getPostsByCid(state, P.column), P)

\* The dispatch of fetchPost and the commit of its response.
C6_Step ==
  /\ (last'.kind = "dispatch" /\ last'.action = "fetchPost")
     => LET id == last'.arg
            cached == ObjGet(state.posts.data, id)
            needed == \/ ~ObjHas(state.posts.data, id)
                      \/ "content" \notin DOMAIN cached
                      \/ cached.content = ""
        IN /\ last'.issued <=> needed
           /\ store' = store
           /\ last'.issued =>
                /\ netCalls' = netCalls (+) SetToBag({"/posts/" \o id})
                /\ last'.ret = Pending
           /\ ~last'.issued =>
                /\ netCalls' = netCalls
                /\ inflight' = inflight
                /\ last'.ret = Resolved([data |-> cached])
  /\ (last'.kind = "resolve" /\ last'.action = "fetchPost")
     => LET P == last'.ret.value.data
        IN /\ P._id = last'.arg
           /\ "content" \in DOMAIN P
           /\ ObjGet(state'.posts.data, last'.arg) = P

\* C6: a dispatch of fetchPost(id) makes the request /posts/id exactly when the
\* post cache has no entry for id or the entry has no content or an empty one;
\* the dispatch itself changes no state; served from the cache it makes no
\* request and resolves with {data: the cached post}; and when the response of
\* a request is committed, the cache entry for id is the post of the response.
C6_FetchPostGuard == [][C6_Step]_vars

\* A stub cached by fetchPosts, then fetchPost for it: the request is made.
C6_Witness ==
  /\ commits = <<"fetchPosts">>
  /\ last.kind = "dispatch" /\ last.action = "fetchPost" /\ last.arg = "p1"
  /\ last.issued
  /\ ObjGet(state.posts.data, "p1") = PostStub("p1", "c1")

\* The URL of the posts of a column.
PostsUrl(cid) == "/columns/" \o cid \o "/posts"

\* The commit of a fetchPosts response.
C7_MergeStep ==
  (last'.kind = "resolve" /\ last'.action = "fetchPosts")
  => LET list == last'.ret.value.data.list
         ids == {list[i]._id : i \in 1..Len(list)}
     IN /\ \A i \in 1..Len(list) : ObjGet(state'.posts.data, list[i]._id) = list[i]
        /\ \A j \in 1..Len(state.posts.data) :
             LET e == state.posts.data[j]
             IN /\ ObjHas(state'.posts.data, e.k)
                /\ e.k \notin ids => ObjGet(state'.posts.data, e.k) = e.v
        /\ state'.posts.loadedColumns = Append(state.posts.loadedColumns, last'.arg)

\* fetchPosts requested once for each of two columns, both committed.
C7_BothLoaded ==
  \A A, B \in ColumnIds :
    (/\ A # B
     /\ CopiesIn(PostsUrl(A), netCalls) = 1
     /\ CopiesIn(PostsUrl(B), netCalls) = 1
     /\ Count(commits, "fetchPosts") = 2)
    => /\ Count(state.posts.loadedColumns, A) = 1
       /\ Count(state.posts.loadedColumns, B) = 1

\* C7: the commit of a fetchPosts response for a column puts every post of the
\* response in the post cache, keeps every entry cached before it (an entry
\* whose id is not in the response keeps its value) and appends the column id
\* to loadedColumns; and when fetchPosts has been requested once for each of two
\* distinct columns and both responses are committed, loadedColumns holds each
\* of the two ids exactly once.
C7_FetchPostsMerges == [][C7_MergeStep]_vars /\ []C7_BothLoaded

\* A full post cached by fetchPost, then fetchPosts for c1 and for c2.
C7_Witness ==
  /\ commits = <<"fetchPost", "fetchPosts", "fetchPosts">>
  /\ state.posts.loadedColumns = <<"c1", "c2">>
  /\ ObjGet(state.posts.data, "p2") = PostFull("p2", "c2", "body")
  /\ ObjGet(state.posts.data, "p1") = PostStub("p1", "c1")
  /\ last.kind = "resolve" /\ last.action = "fetchPosts" /\ last.arg = "c2"

\* C8: when a fetchColumns response is committed, getColumns is the list of the
\* response in its order, isLoaded is true and the column cache holds the
\* columns of the list and no other, whatever it held before.
C8_FetchColumnsReplaces ==
  (last.kind = "resolve" /\ last.action = "fetchColumns")
  => LET list == last.ret.value.data.list
     IN /\ getColumns(state) = list
        /\ state.columns.isLoaded
        /\ \A c \in ColumnIds :
             ObjHas(state.columns.data, c) <=> \E i \in 1..Len(list) : list[i]._id = c

\* Column c1 cached by fetchColumn, then a list without c1 is committed.
C8_Witness ==
  /\ commits = <<"fetchColumn", "fetchColumns">>
  /\ CopiesIn("/columns/c1", netCalls) = 1
  /\ CopiesIn("/columns/c2", netCalls) = 0
  /\ last.kind = "resolve" /\ last.action = "fetchColumns"
  /\ getColumns(state) = <<Column("c2")>>
  /\ getColumnById(state, "c1") = undefinedObj

\* The URL of a page of the column list.
ColumnsUrl(page) == "/columns?currentPage=" \o page \o "&pageSize=" \o PageSize

\* isLoaded from one state to the next, and a fetchColumns dispatch under it.
C9_Step ==
  /\ state.columns.isLoaded => state'.columns.isLoaded
  /\ (/\ last'.kind = "dispatch" /\ last'.action = "fetchColumns"
      /\ state.columns.isLoaded)
     => /\ ~last'.issued
        /\ netCalls' = netCalls
        /\ inflight' = inflight
        /\ store' = store

\* C9: isLoaded, once true, stays true, and a dispatch of fetchColumns made
\* while it is true, for any page, makes no request and changes no state.
C9_FetchColumnsOnce == [][C9_Step]_vars

\* Page 1 was fetched and committed; a dispatch for page 2 makes no request.
C9_Witness ==
  /\ commits = <<"fetchColumns">>
  /\ netCalls = SetToBag({ColumnsUrl("1")})
  /\ last.kind = "dispatch" /\ last.action = "fetchColumns" /\ last.arg = "2"
  /\ ~last.issued

\* C10: after the signOut mutation the token in the state is the empty string,
\* the token key of localStorage is absent, the user slot is {isLogin: false}
\* and nothing else, and no Authorization default header is set.
C10_SignOutClears ==
  (last.kind = "commit" /\ last.action = "signOut")
  => /\ state.token = ""
     /\ localStorage = undefined
     /\ state.user = [isLogin |-> FALSE]
     /\ Authorization = undefined

\* login and fetchCurrentUser were committed, then signOut.
C10_Witness ==
  /\ commits = <<"login", "fetchCurrentUser", "signOut">>
  /\ last.kind = "commit" /\ last.action = "signOut"
  /\ state.token = ""

\* The values cached in the post cache whose column field is cid.
CachedOfColumn(st, cid) ==
  {i \in 1..Len(st.posts.data) :
     "column" \in DOMAIN st.posts.data[i].v /\ st.posts.data[i].v.column = cid}

\* C11: for any contents of the post cache and any cid, getPostsByCid(cid)
\* returns exactly the cached posts whose column field is cid: every element
\* of the result is a cached value of that column, every cached value of that
\* column is in the result, and the result has one element per such entry.
C11_PostsByCidExact ==
  \A cid \in ColumnIds :
    LET result == getPostsByCid(state, cid)
    IN /\ \A j \in 1..Len(result) :
            \E i \in CachedOfColumn(state, cid) : state.posts.data[i].v = result[j]
       /\ \A i \in CachedOfColumn(state, cid) :
            \E j \in 1..Len(result) : result[j] = state.posts.data[i].v
       /\ Len(result) = Cardinality(CachedOfColumn(state, cid))

\* The cache holds a post of each column, and each getter call returns one.
C11_Witness ==
  /\ Len(state.posts.data) = 2
  /\ Len(getPostsByCid(state, "c1")) = 1
  /\ Len(getPostsByCid(state, "c2")) = 1
  /\ getPostsByCid(state, "c1")[1]._id # getPostsByCid(state, "c2")[1]._id

\* The actions that consult a cache before they call the API.
FetchActions == {"fetchColumns", "fetchColumn", "fetchPosts", "fetchPost"}

\* v is what a dispatch returned, an envelope that has a data field.
ReturnsPayload(v) ==
  /\ v.tag = "resolved"
  /\ "data" \in DOMAIN v.value

\* C12: every dispatch that completes successfully returns the response
\* payload, an envelope whose data field is the requested entity or list, also
\* when fetchColumns, fetchColumn, fetchPosts or fetchPost is served from the
\* cache and no request is made.
C12_DispatchReturnsPayload ==
  /\ (last.kind = "resolve" /\ last.ret # Pending) => ReturnsPayload(last.ret)
  /\ (last.kind = "dispatch" /\ last.action \in FetchActions /\ ~last.issued)
     => /\ ReturnsPayload(last.ret)
        /\ last.action = "fetchColumn"
           => last.ret.value.data = getColumnById(state, last.arg)
        /\ last.action = "fetchPost"
           => last.ret.value.data = getCurrentPost(state, last.arg)

\* The column cache of st holds exactly the entry of column cid that the
\* payload rawData carries.
HoldsColumnOnce(st, rawData) ==
  /\ Count(ObjKeys(st.columns.data), rawData.data._id) = 1
  /\ ObjGet(st.columns.data, rawData.data._id) = rawData.data

\* What a response of fetchColumn for cid carries.
ColumnPayloads(cid) ==
  Responses(asyncAndCommit("/columns/" \o cid, "fetchColumn", GetConfig, undefined)
              @@ [arg |-> cid])

C13_Hypothetical ==
  \A cid \in ColumnIds : \A rawData \in ColumnPayloads(cid) :
    LET once == mutations_fetchColumn(World, rawData)
        twice == mutations_fetchColumn(once, rawData)
    IN /\ twice = once
       /\ HoldsColumnOnce(once.state, rawData)
       /\ Len(once.state.columns.data)
            = Len(state.columns.data) + (IF ObjHas(state.columns.data, cid) THEN 0 ELSE 1)

\* A response of fetchColumn is committed on a cache that already holds the
\* column of that response, as a commit of the same payload left it.
C13_SecondCommit ==
  /\ last'.kind = "resolve" /\ last'.action = "fetchColumn"
  /\ last.kind = "resolve" /\ last.action = "fetchColumn" /\ last.arg = last'.arg
  /\ last.ret = last'.ret

\* C13: applying the fetchColumn mutation twice with the same payload yields
\* the same state as applying it once: the cache entry for that id is the
\* payload's column and the cache has no additional entry. Checked on every
\* reachable state for every payload, and on the runs where two responses
\* with the same payload are committed one after the other.
C13_FetchColumnIdempotent ==
  [][/\ C13_Hypothetical
     /\ C13_SecondCommit
        => /\ store' = store
           /\ HoldsColumnOnce(state', last'.ret.value)]_vars

\* Two fetchColumn calls for c1 were made and both responses are committed;
\* the cache holds one entry.
C13_Witness ==
  /\ commits = <<"fetchColumn", "fetchColumn">>
  /\ CopiesIn("/columns/c1", netCalls) = 2
  /\ inflight = EmptyBag
  /\ ObjKeys(state.columns.data) = <<"c1">>

\* The calls in flight in bag b that a dispatch of action with arg made.
CallsOf(b, action, arg) ==
  {r \in BagToSet(b) : r.origin = action /\ r.arg = arg}

\* How many calls of a dispatch of action with arg are in flight in bag b.
InFlight(b, action, arg) ==
  BagCardinality([r \in CallsOf(b, action, arg) |-> b[r]])

\* No response has yet filled what the guard of the fetch action reads.
SlotUnfilled(st, action, arg) ==
  CASE action = "fetchColumns" -> ~st.columns.isLoaded
    [] action = "fetchColumn" -> ~ObjHas(st.columns.data, arg)
    [] action = "fetchPosts" -> Count(st.posts.loadedColumns, arg) = 0
    [] action = "fetchPost" ->
         \/ ~ObjHas(st.posts.data, arg)
         \/ "content" \notin DOMAIN ObjGet(st.posts.data, arg)
         \/ ObjGet(st.posts.data, arg).content = ""

\* A fetch action is dispatched while a call of an earlier dispatch of the
\* same action is in flight and no response has filled its cache slot.
C14_SecondDispatch ==
  /\ last'.kind = "dispatch" /\ last'.action \in FetchActions
  /\ CallsOf(inflight, last'.action, last'.arg) # {}
  /\ SlotUnfilled(state, last'.action, last'.arg)

\* The response of a fetch action is committed.
C14_FetchCommit ==
  last'.kind = "resolve" /\ last'.action \in FetchActions

C14_Step ==
  /\ C14_SecondDispatch
     => /\ last'.issued
        /\ InFlight(inflight', last'.action, last'.arg)
             = InFlight(inflight, last'.action, last'.arg) + 1
        /\ InFlight(inflight', last'.action, last'.arg) >= 2
        /\ \A r \in CallsOf(inflight', last'.action, last'.arg) :
             CopiesIn(r.url, netCalls') = CopiesIn(r.url, netCalls) + 1
  /\ C14_FetchCommit
     => /\ commits' = Append(commits, last'.action)
        /\ last'.action = "fetchColumns" => state'.columns.isLoaded
        /\ last'.action = "fetchColumn"
           => ObjGet(state'.columns.data, last'.arg) = last'.ret.value.data
        /\ last'.action = "fetchPosts"
           => Count(state'.posts.loadedColumns, last'.arg)
                = Count(state.posts.loadedColumns, last'.arg) + 1
        /\ last'.action = "fetchPost"
           => ObjGet(state'.posts.data, last'.arg) = last'.ret.value.data

\* C14: when the same fetch action is dispatched twice before the response
\* of the first dispatch is committed, both dispatches pass the guard and
\* both make a network call, and each response is committed when it
\* arrives, whatever the other did before it.
C14_ConcurrentDispatches == [][C14_Step]_vars

\* fetchPosts('c1') was dispatched twice before any response; both calls
\* were made and both responses are committed.
C14_Witness ==
  /\ commits = <<"fetchPosts", "fetchPosts">>
  /\ CopiesIn(PostsUrl("c1"), netCalls) = 2
  /\ state.posts.loadedColumns = <<"c1", "c1">>

\* loadedColumns holds each column id at most once.
C15_NoDuplicates ==
  \A cid \in ColumnIds : Count(state.posts.loadedColumns, cid) <= 1

\* Column cid is loaded or being loaded by at most one call: its entries in
\* loadedColumns and the fetchPosts calls in flight for it count one at most.
LoadedOrLoadingOnce(st, b) ==
  \A cid \in ColumnIds :
    Count(st.posts.loadedColumns, cid)
      + InFlight(b, "fetchPosts", cid) <= 1

\* fetchPosts is dispatched for a column while a fetchPosts call for the same
\* column is in flight, and makes a call of its own.
C15_OverlappingDispatch ==
  /\ last'.kind = "dispatch" /\ last'.action = "fetchPosts" /\ last'.issued
  /\ CallsOf(inflight, "fetchPosts", last'.arg) # {}

\* C15 (amended): loadedColumns contains each column id at most once in every
\* state reached without dispatching fetchPosts for a column while a
\* fetchPosts call for the same column is in flight; only such an
\* overlapping dispatch leads to an id that is recorded twice.
C15_NoDuplicatesUnlessOverlap ==
  [][(LoadedOrLoadingOnce(state, inflight) /\ ~C15_OverlappingDispatch)
       => /\ LoadedOrLoadingOnce(state', inflight')
          /\ C15_NoDuplicates']_vars

\* A first call for c1 failed, fetchPosts('c1') was dispatched again and its
\* response committed: two calls, never two at once, c1 recorded once; a
\* further dispatch is served from the cache.
C15_Witness ==
  /\ CopiesIn(PostsUrl("c1"), netCalls) = 2
  /\ commits = <<"fetchPosts">>
  /\ state.posts.loadedColumns = <<"c1">>
  /\ inflight = EmptyBag
  /\ LoadedOrLoadingOnce(state, inflight)

\* The mutations that write one entity of a cache.
SingleEntityActions == {"fetchColumn", "fetchPost", "updatePost", "deletePost"}

\* The keys of the object o or of the object q.
KeysOfEither(o, q) ==
  {o[i].k : i \in 1..Len(o)} \cup {q[i].k : i \in 1..Len(q)}

\* The objects o and q have the same entries but for the key x.
SameButFor(o, q, x) ==
  \A k \in KeysOfEither(o, q) \ {x} :
    /\ ObjHas(o, k) /\ ObjHas(q, k)
    /\ ObjGet(o, k) = ObjGet(q, k)

C16_Step ==
  (last'.kind = "resolve" /\ last'.action \in SingleEntityActions)
  => LET x == last'.ret.value.data._id
     IN /\ x = last'.arg
        /\ IF last'.action = "fetchColumn"
             THEN /\ SameButFor(state.columns.data, state'.columns.data, x)
                  /\ state'.posts.data = state.posts.data
             ELSE /\ SameButFor(state.posts.data, state'.posts.data, x)
                  /\ state'.columns.data = state.columns.data
        /\ state'.columns.isLoaded = state.columns.isLoaded
        /\ state'.posts.loadedColumns = state.posts.loadedColumns
        /\ state'.token = state.token
        /\ state'.user = state.user
        /\ state'.error = state.error
        /\ state'.loading = state.loading
        /\ last'.action = "deletePost" => ~ObjHas(state'.posts.data, x)

\* C16: committing fetchColumn, fetchPost, updatePost or deletePost for the id
\* x leaves every other entry of both caches, columns.isLoaded,
\* posts.loadedColumns, token, user, error and loading unchanged, and after
\* deletePost for x the post cache has no entry for x.
C16_SingleEntityFrame == [][C16_Step]_vars

\* The posts p1 and p2 were cached by fetchPosts, then deletePost for p1 was
\* committed: p2 is still cached, p1 is not.
C16_Witness ==
  /\ commits = <<"fetchPosts", "deletePost">>
  /\ last.kind = "resolve" /\ last.action = "deletePost" /\ last.arg = "p1"
  /\ ObjKeys(state.posts.data) = <<"p2">>
  /\ state.posts.loadedColumns # <<>>

C17_Step ==
  /\ state'.loading # state.loading
     => last'.kind = "commit" /\ last'.action = "setLoading"
  /\ state'.error # state.error
     => last'.kind = "commit" /\ last'.action = "setError"

\* C17: the loading and error slots change only when the setLoading and the
\* setError mutation are committed: no dispatch, no response that is
\* committed, no failed call and no other mutation (login and signOut
\* included) sets or clears them.
C17_FlagsFrame == [][C17_Step]_vars

\* loading was set, then a login was dispatched and its response committed:
\* loading is still set.
C17_Witness ==
  /\ commits = <<"setLoading", "login">>
  /\ state.loading
  /\ last.kind = "resolve" /\ last.action = "login"

\* C18: in every reachable state, also when signOut is committed while a
\* login or fetchCurrentUser call is in flight and that call's response is
\* committed afterwards, user.isLogin is true only if the token in the state
\* is not the empty string.
C18_LoggedInHasToken ==
  state.user.isLogin => state.token # ""

\* The token in the state, the token key of localStorage and the default
\* Authorization header agree.
C19_Agree ==
  /\ state.token = (IF localStorage = undefined THEN "" ELSE localStorage)
  /\ (state.token = "") <=> (localStorage = undefined)
  /\ Authorization # undefined => Authorization = "Bearer " \o state.token

\* The step commits the login mutation or the signOut mutation.
C19_LoginOrSignOut ==
  \/ last'.kind = "commit" /\ last'.action = "signOut"
  \/ /\ last'.kind = "resolve"
     /\ commits' = Append(commits, "login")

C19_Step ==
  /\ C19_Agree'
  /\ (\/ state'.token # state.token
      \/ localStorage' # localStorage
      \/ Authorization' # Authorization)
     => C19_LoginOrSignOut

\* C19: in every reachable state the token in the state equals the token kept
\* in localStorage (the empty string exactly when the key is absent), and the
\* Authorization header, whenever it is set, is 'Bearer ' followed by the
\* token in the state; login and signOut are the only operations that change
\* any of the three.
C19_TokenAgreement == C19_Agree /\ [][C19_Step]_vars

\* A login replaced the token the session started with, and fetchCurrentUser
\* was committed after it.
C19_Witness ==
  /\ commits = <<"login", "fetchCurrentUser">>
  /\ state.token = "tok1" /\ localStorage = "tok1"
  /\ Authorization = "Bearer tok1"
  /\ state.user.isLogin

\* The post cache of st holds an entry for p that has non-empty content.
HasContent(st, p) ==
  /\ ObjHas(st.posts.data, p)
  /\ "content" \in DOMAIN ObjGet(st.posts.data, p)
  /\ ObjGet(st.posts.data, p).content # ""

\* The step takes the content of the cached post p away.
LosesContent(p) == HasContent(state, p) /\ ~HasContent(state', p)

\* The step commits the response of updatePost or of deletePost for p.
UpdateOrDeleteOf(p) ==
  /\ last'.kind = "resolve" /\ last'.action \in {"updatePost", "deletePost"}
  /\ last'.arg = p

\* The step commits the response of fetchPost for p, or a response of
\* fetchPosts whose list has a post with the id p.
RefetchOf(p) ==
  /\ last'.kind = "resolve"
  /\ \/ last'.action = "fetchPost" /\ last'.arg = p
     \/ /\ last'.action = "fetchPosts"
        /\ \E i \in 1..Len(last'.ret.value.data.list) :
             last'.ret.value.data.list[i]._id = p

\* C20: once the post cache holds an entry for p with non-empty content, the
\* entry keeps non-empty content until updatePost or deletePost for p is
\* committed; a fetchPosts commit whose list has a stub of p without a body
\* does not replace the full post.
C20_ContentKept ==
  [][\A p \in PostIds : LosesContent(p) => UpdateOrDeleteOf(p)]_vars

\* C20 (amended): the entry of p keeps non-empty content until a response of
\* updatePost, deletePost or fetchPost for p, or a response of fetchPosts
\* whose list contains p, is committed.
C20_ContentKeptUnlessRefetched ==
  [][\A p \in PostIds :
       LosesContent(p) => (UpdateOrDeleteOf(p) \/ RefetchOf(p))]_vars

\* p1 was cached by fetchPost, a fetchPosts response was committed after it
\* and left the stub of p1; fetchPost('p1') calls the API a second time.
C20_Witness ==
  /\ commits = <<"fetchPost", "fetchPosts">>
  /\ ObjHas(state.posts.data, "p1") /\ ~HasContent(state, "p1")
  /\ CopiesIn("/posts/p1", netCalls) = 2
  /\ last.kind = "dispatch" /\ last.action = "fetchPost" /\ last.arg = "p1"
  /\ last.issued

====
